---- MODULE Spec2Model ----
(***************************************************************************)
(* Chunking engine of langchain_pairtranslation: paragraph spans, the      *)
(* adjacency classifier, chunk collections with their merge and split      *)
(* passes, and the full-document export.                                    *)
(*                                                                          *)
(* Text is a sequence of one-character strings.  A paragraph accessor is a  *)
(* sequence of texts indexed by paragraph index + 1.                        *)
(***************************************************************************)
EXTENDS Integers, Sequences, FiniteSets, TLC

VARIABLES
    paragraphs,   \* the source document P: the list handed to from_paragraphs
    collection,   \* BaseDocumentChunks.collection: the list of DocumentChunk
    last,         \* the last call made on the collection and how it ended
    exports,      \* what the last to_paragraph_exports_iter call yielded
    log,          \* LOG.warning records of the last split_pass
    call          \* a call of a pure function: its name, arguments and result

vars == <<paragraphs, collection, last, exports, log, call>>

----------------------------------------------------------------------------
(* Bounds of the model *)

\* size of a document: its characters, and one for each paragraph (the
\* length of the document as one text, a line break closing each paragraph)
MaxDocSize == 5
MaxSrcIndex == 2     \* highest paragraph index of a span drawn as an argument
MaxSrcLength == 2    \* longest paragraph of a span drawn as an argument
MaxSeqLen == 4       \* longest sequence handed to center_enumerate
MaxRowLength == 3    \* longest paragraph handed to a splitting function

Alphabet == {"a", ".", " "}

----------------------------------------------------------------------------
(* Helpers on sequences and texts *)

\* a local variable: value is computed once and Body reads it
Bind(value, Body(_)) == CHOOSE r \in {Body(v) : v \in {value}} : TRUE

Min(a, b) == IF a <= b THEN a ELSE b

\* Python slice text[s:e] with 0 <= s, clamped like Python clamps it
Slice(text, s, e) ==
    LET hi == Min(e, Len(text))
    IN  IF s >= hi THEN <<>> ELSE SubSeq(text, s + 1, hi)

RECURSIVE SumSeq(_)
SumSeq(s) == IF s = <<>> THEN 0 ELSE Head(s) + SumSeq(Tail(s))

RECURSIVE Flatten(_)
Flatten(ss) == IF ss = <<>> THEN <<>> ELSE Head(ss) \o Flatten(Tail(ss))

\* str.isspace of one character
IsSpace(c) == c \in {" ", "\n", "\r", "\t"}

\* str.strip(): leading and trailing whitespace removed
RECURSIVE LStrip(_)
LStrip(text) ==
    IF text # <<>> /\ IsSpace(Head(text)) THEN LStrip(Tail(text)) ELSE text

RECURSIVE RStrip(_)
RStrip(text) ==
    IF text # <<>> /\ IsSpace(text[Len(text)])
    THEN RStrip(SubSeq(text, 1, Len(text) - 1))
    ELSE text

strip(text) == RStrip(LStrip(text))

\* str.index(sub): offset of the first occurrence of sub in text
index(text, sub) ==
    LET hits == {i \in 0..(Len(text) - Len(sub)) : Slice(text, i, i + Len(sub)) = sub}
    IN  CHOOSE i \in hits : \A j \in hits : i <= j

----------------------------------------------------------------------------
(* utils/list_extensions.py *)

same_sign(a, b) == (a >= 0 /\ b >= 0) \/ (a < 0 /\ b < 0)

\* enumerable[i] of a Python list: a negative index counts from the end, an
\* index outside -len .. len-1 raises IndexError
getitem(enumerable, i) ==
    IF 0 <= i /\ i < Len(enumerable) THEN [raised |-> FALSE, value |-> enumerable[i + 1]]
    ELSE IF -Len(enumerable) <= i /\ i < 0
    THEN [raised |-> FALSE, value |-> enumerable[Len(enumerable) + i + 1]]
    ELSE [raised |-> TRUE, value |-> <<>>]

\* The for loop of center_enumerate.  left: the iterations still to run;
\* yielded: the pairs yielded so far.
RECURSIVE center_loop(_, _, _, _, _, _)
center_loop(enumerable, center_idx, step, offset, left, yielded) ==
    IF left = 0 THEN [raised |-> FALSE, yielded |-> yielded]
    ELSE IF getitem(enumerable, center_idx + offset).raised
    THEN [raised |-> TRUE, yielded |-> yielded]
    ELSE center_loop(enumerable, center_idx, step,
                     IF same_sign(-offset, step) THEN -offset + step ELSE -offset,
                     left - 1,
                     Append(yielded, <<center_idx + offset,
                                       getitem(enumerable, center_idx + offset).value>>))

\* center_enumerate, consumed to its end: the pairs yielded, and whether an
\* IndexError ended the iteration
center_enumerate(enumerable, clockwise) ==
    LET list_length == Len(enumerable)
        center_idx == list_length \div 2
    IN  IF getitem(enumerable, center_idx).raised
        THEN [raised |-> TRUE, yielded |-> <<>>]
        ELSE IF center_idx = 0
        THEN [raised |-> FALSE, yielded |-> <<<<center_idx, enumerable[center_idx + 1]>>>>]
        ELSE center_loop(enumerable, center_idx, IF clockwise THEN 1 ELSE -1,
                         IF clockwise THEN 1 ELSE -1, list_length - 1,
                         <<<<center_idx, enumerable[center_idx + 1]>>>>)

----------------------------------------------------------------------------
(* rowinfo.py: Adjacency and ParagraphSpan *)

Adjacency == {"NONE", "FORWARD", "BACKWARD", "OVERLAPPING", "IDENTICAL"}

\* Adjacency is a plain Enum (no __bool__, no int mixin): every member,
\* NONE = 0 included, is true in a boolean context.
AdjacencyTruthy(adjacency) == adjacency \in Adjacency

\* UnsignedInt = Annotated[int, Ge(0)]
UnsignedInt(n) == n >= 0

\* field validator of char_range: start < end
check_col_range(rng) == rng[1] < rng[2]

\* ParagraphSpan(...): the validation pydantic runs at construction.  TRUE
\* when the span is built, FALSE when a ValidationError is raised.
ParagraphSpanAccepted(src_index, src_length, char_range) ==
    /\ UnsignedInt(src_index)
    /\ UnsignedInt(src_length)
    /\ UnsignedInt(char_range[1])
    /\ UnsignedInt(char_range[2])
    /\ check_col_range(char_range)

ParagraphSpan(src_index, src_length, src_breaks, char_range) ==
    [src_index |-> src_index, src_length |-> src_length,
     src_breaks |-> src_breaks, char_range |-> char_range]

start(span) == span.char_range[1]
end(span) == span.char_range[2]
length(span) == end(span) - start(span)
is_paragraph_start(span) == span.char_range[1] = 0
\* variant: a span that stops one character short also ends its paragraph
is_paragraph_end_short(span) == span.char_range[2] >= span.src_length - 1
is_paragraph_end(span) == span.char_range[2] = span.src_length

_ranges_overlap(range_a, range_b) ==
    range_a[1] < range_b[2] /\ range_b[1] < range_a[2]

_range_includes(range_outer, range_inner) ==
    range_outer[1] <= range_inner[1] /\ range_outer[2] >= range_inner[2]

\* variant: the rule for a span at the start of the paragraph after is left out
span_eval_adjacency_one_way(self, other) ==
    IF self.src_index = other.src_index /\ end(self) = start(other)
        THEN "FORWARD"
    ELSE IF self.src_index = other.src_index /\ start(self) = end(other)
        THEN "BACKWARD"
    ELSE IF self.src_index = other.src_index /\ self.char_range = other.char_range
        THEN "IDENTICAL"
    ELSE IF self.src_index = other.src_index
            /\ _ranges_overlap(self.char_range, other.char_range)
        THEN "OVERLAPPING"
    ELSE IF other.src_index - self.src_index = 1
            /\ is_paragraph_end(self) /\ is_paragraph_start(other)
        THEN "FORWARD"
    ELSE "NONE"

\* variant: the start of any later paragraph continues the end of a paragraph
span_eval_adjacency_across_gap(self, other) ==
    IF self.src_index = other.src_index /\ end(self) = start(other)
        THEN "FORWARD"
    ELSE IF self.src_index = other.src_index /\ start(self) = end(other)
        THEN "BACKWARD"
    ELSE IF self.src_index = other.src_index /\ self.char_range = other.char_range
        THEN "IDENTICAL"
    ELSE IF self.src_index = other.src_index
            /\ _ranges_overlap(self.char_range, other.char_range)
        THEN "OVERLAPPING"
    ELSE IF other.src_index - self.src_index >= 1
            /\ is_paragraph_end(self) /\ is_paragraph_start(other)
        THEN "FORWARD"
    ELSE IF self.src_index - other.src_index >= 1
            /\ is_paragraph_start(self) /\ is_paragraph_end(other)
        THEN "BACKWARD"
    ELSE "NONE"

span_eval_adjacency(self, other) ==
    IF self.src_index = other.src_index /\ end(self) = start(other)
        THEN "FORWARD"
    ELSE IF self.src_index = other.src_index /\ start(self) = end(other)
        THEN "BACKWARD"
    ELSE IF self.src_index = other.src_index /\ self.char_range = other.char_range
        THEN "IDENTICAL"
    ELSE IF self.src_index = other.src_index
            /\ _ranges_overlap(self.char_range, other.char_range)
        THEN "OVERLAPPING"
    ELSE IF other.src_index - self.src_index = 1
            /\ is_paragraph_end(self) /\ is_paragraph_start(other)
        THEN "FORWARD"
    ELSE IF self.src_index - other.src_index = 1
            /\ is_paragraph_start(self) /\ is_paragraph_end(other)
        THEN "BACKWARD"
    ELSE "NONE"

\* ParagraphSpan.to_text: the assertion on the row length, then the slice
to_text_raises(span, src_row) == Len(src_row) # span.src_length
to_text(span, src_row) == Slice(src_row, start(span), end(span))

\* offsets of the matches of NEWLINE_PATTERN (\n|\r)
NewlineOffsets(text) ==
    LET RECURSIVE go(_)
        go(i) == IF i > Len(text) THEN <<>>
                 ELSE (IF text[i] \in {"\n", "\r"} THEN <<i - 1>> ELSE <<>>) \o go(i + 1)
    IN  go(1)

span_from_single_paragraph(src_index, src_text) ==
    LET src_length == Len(src_text)
        trimmed_text == strip(src_text)
        s == IF Len(trimmed_text) # src_length THEN index(src_text, trimmed_text) ELSE 0
        e == IF Len(trimmed_text) # src_length THEN s + Len(trimmed_text) ELSE src_length
    IN  ParagraphSpan(src_index, src_length, NewlineOffsets(src_text), <<s, e>>)

----------------------------------------------------------------------------
(* config.py: SplitBehavior and SplitPattern *)

\* A pattern source is a sequence of regex tokens:
\*   "("  ")"   a capture group        "\\."   a literal full stop
\*   "\\s*"     any run of whitespace  "[^a]"  one character that is no letter
SplitPattern(name, pattern_src) == [name |-> name, pattern_src |-> pattern_src]

Period == SplitPattern("Period", <<"\\.">>)
EndOfSentence == SplitPattern("End of sentence", <<"(", "\\.", ")", "[^a]">>)
SentenceBreak == SplitPattern("Sentence break", <<"(", "\\.", ")", "\\s*">>)
SentenceStart == SplitPattern("Sentence start", <<"\\s*", "(", "\\.", ")">>)
Captured == SplitPattern("Captured", <<"(", "\\.", ")">>)

Splitters == {Period, EndOfSentence, SentenceBreak, SentenceStart, Captured}

\* the splitters the passes are called with: one that drops its match, one
\* that keeps the captured full stop on the left
PassSplitters == {Period, SentenceBreak}

\* CAPTURE_LEFT = ^\(.*?\)   matched against the pattern source
CAPTURE_LEFT(pattern_src) ==
    /\ pattern_src # <<>>
    /\ pattern_src[1] = "("
    /\ \E i \in 2..Len(pattern_src) : pattern_src[i] = ")"

\* CAPTURE_RIGHT = .*?\(.*?\)$   matched against the pattern source
CAPTURE_RIGHT(pattern_src) ==
    /\ pattern_src # <<>>
    /\ pattern_src[Len(pattern_src)] = ")"
    /\ \E i \in 1..(Len(pattern_src) - 1) : pattern_src[i] = "("

\* SplitPattern.behavior, a set of flags: INCLUDE_BOTH = {INCLUDE_LEFT, INCLUDE_RIGHT}
behavior(splitter) ==
    LET include_left == CAPTURE_LEFT(splitter.pattern_src)
        include_right == CAPTURE_RIGHT(splitter.pattern_src)
    IN  IF include_left /\ include_right THEN {"INCLUDE_LEFT", "INCLUDE_RIGHT"}
        ELSE IF include_left THEN {"INCLUDE_LEFT"}
        ELSE IF include_right THEN {"INCLUDE_RIGHT"}
        ELSE {"EXCLUDE"}

\* One attempt of the regex engine to match the tokens at offset pos.
\* gs, ge: offsets of the capture group seen so far (-1: none).
RECURSIVE MatchAt(_, _, _, _, _)
MatchAt(tokens, text, pos, gs, ge) ==
    IF tokens = <<>> THEN [ok |-> TRUE, stop |-> pos, gs |-> gs, ge |-> ge]
    ELSE LET t == Head(tokens)
             more == Tail(tokens)
             fail == [ok |-> FALSE, stop |-> pos, gs |-> gs, ge |-> ge]
         IN  CASE t = "(" -> MatchAt(more, text, pos, pos, ge)
               [] t = ")" -> MatchAt(more, text, pos, gs, pos)
               [] t = "\\." ->
                    IF pos < Len(text) /\ text[pos + 1] = "."
                    THEN MatchAt(more, text, pos + 1, gs, ge) ELSE fail
               [] t = "[^a]" ->
                    IF pos < Len(text) /\ text[pos + 1] # "a"
                    THEN MatchAt(more, text, pos + 1, gs, ge) ELSE fail
               [] t = "\\s*" ->
                    IF pos < Len(text) /\ IsSpace(text[pos + 1])
                    THEN MatchAt(tokens, text, pos + 1, gs, ge)
                    ELSE MatchAt(more, text, pos, gs, ge)

\* re.Pattern.finditer: the non-overlapping matches, left to right.  A match
\* is [span |-> <<start, end>>, groups |-> the capture groups' <<start, end>>].
RECURSIVE finditer_from(_, _, _)
finditer_from(pattern_src, text, pos) ==
    IF pos > Len(text) THEN <<>>
    ELSE LET scan(m) ==
                 IF m.ok
                 THEN <<[span |-> <<pos, m.stop>>,
                         groups |-> IF m.gs >= 0 THEN <<<<m.gs, m.ge>>>> ELSE <<>>]>>
                      \o finditer_from(pattern_src, text,
                                       IF m.stop > pos THEN m.stop ELSE pos + 1)
                 ELSE finditer_from(pattern_src, text, pos + 1)
         IN  Bind(MatchAt(pattern_src, text, pos, -1, -1), scan)

finditer(splitter, text) == finditer_from(splitter.pattern_src, text, 0)

\* any(match.groups()): some capture group matched a non-empty text
any_groups(match) == \E i \in 1..Len(match.groups) : match.groups[i][2] > match.groups[i][1]

\* variant: the right half is the whole span again
split_at_whole_right(self, splitter, match) ==
    LET narrowed == any_groups(match)
        split_start == IF narrowed /\ "INCLUDE_LEFT" \in behavior(splitter)
                       THEN match.groups[1][2] ELSE match.span[1]
        \* match.start(-1): re raises IndexError("no such group")
        index_error == narrowed /\ "INCLUDE_RIGHT" \in behavior(splitter)
        split_end == match.span[2]
        spans(left_range, right_range) ==
            IF index_error
               \/ ~ParagraphSpanAccepted(self.src_index, self.src_length, left_range)
               \/ ~ParagraphSpanAccepted(self.src_index, self.src_length, right_range)
            THEN [raised |-> TRUE, pair |-> <<>>]
            ELSE [raised |-> FALSE,
                  pair |-> <<ParagraphSpan(self.src_index, self.src_length,
                                           self.src_breaks, left_range),
                             ParagraphSpan(self.src_index, self.src_length,
                                           self.src_breaks, right_range)>>]
    IN  spans(<<self.char_range[1], split_start>>, <<self.char_range[1], self.char_range[2]>>)

\* variant: the left half takes one character more
split_at_long_left(self, splitter, match) ==
    LET narrowed == any_groups(match)
        split_start == IF narrowed /\ "INCLUDE_LEFT" \in behavior(splitter)
                       THEN match.groups[1][2] ELSE match.span[1]
        \* match.start(-1): re raises IndexError("no such group")
        index_error == narrowed /\ "INCLUDE_RIGHT" \in behavior(splitter)
        split_end == match.span[2]
        spans(left_range, right_range) ==
            IF index_error
               \/ ~ParagraphSpanAccepted(self.src_index, self.src_length, left_range)
               \/ ~ParagraphSpanAccepted(self.src_index, self.src_length, right_range)
            THEN [raised |-> TRUE, pair |-> <<>>]
            ELSE [raised |-> FALSE,
                  pair |-> <<ParagraphSpan(self.src_index, self.src_length,
                                           self.src_breaks, left_range),
                             ParagraphSpan(self.src_index, self.src_length,
                                           self.src_breaks, right_range)>>]
    IN  spans(<<self.char_range[1], split_start + 1>>, <<split_end, self.char_range[2]>>)

\* ParagraphSpan.splititer for one match: the pair it yields, or the error
\* it raises (IndexError of match.start(-1), ValidationError of a span).
split_at(self, splitter, match) ==
    LET narrowed == any_groups(match)
        split_start == IF narrowed /\ "INCLUDE_LEFT" \in behavior(splitter)
                       THEN match.groups[1][2] ELSE match.span[1]
        \* match.start(-1): re raises IndexError("no such group")
        index_error == narrowed /\ "INCLUDE_RIGHT" \in behavior(splitter)
        split_end == match.span[2]
        spans(left_range, right_range) ==
            IF index_error
               \/ ~ParagraphSpanAccepted(self.src_index, self.src_length, left_range)
               \/ ~ParagraphSpanAccepted(self.src_index, self.src_length, right_range)
            THEN [raised |-> TRUE, pair |-> <<>>]
            ELSE [raised |-> FALSE,
                  pair |-> <<ParagraphSpan(self.src_index, self.src_length,
                                           self.src_breaks, left_range),
                             ParagraphSpan(self.src_index, self.src_length,
                                           self.src_breaks, right_range)>>]
    IN  spans(<<self.char_range[1], split_start>>, <<split_end, self.char_range[2]>>)

\* ParagraphSpan.splititer, consumed to its end as _split_chunk consumes it
splititer(self, src_text, splitter) ==
    LET collect(yielded) ==
            IF \E i \in 1..Len(yielded) : yielded[i].raised
            THEN [raised |-> TRUE, pairs |-> <<>>]
            ELSE [raised |-> FALSE, pairs |-> [i \in 1..Len(yielded) |-> yielded[i].pair]]
        split_all(matches) ==
            Bind([i \in 1..Len(matches) |-> split_at(self, splitter, matches[i])], collect)
    IN  Bind(SelectSeq(finditer(splitter, src_text),
                       LAMBDA m : _range_includes(self.char_range, m.span)), split_all)

----------------------------------------------------------------------------
(* translation_state.py and chunking/base.py: DocumentChunk *)

UNTRANSLATED == 0
LLM_TRANSLATED == 10
USER_TRANSLATED == 20
USER_EDITED == 30

DocumentChunk(paragraph_metadata, state, warnings) ==
    [paragraph_metadata |-> paragraph_metadata, state |-> state, warnings |-> warnings]

\* f"Max length ({max_length}) exceeded"
MaxLengthWarning(max_length) == <<"Max length (", max_length, ") exceeded">>

chunk_start(chunk) == chunk.paragraph_metadata[1]
chunk_end(chunk) == chunk.paragraph_metadata[Len(chunk.paragraph_metadata)]

\* DocumentChunk.__len__
chunk_len(chunk) ==
    SumSeq([i \in 1..Len(chunk.paragraph_metadata) |-> length(chunk.paragraph_metadata[i])])

\* DocumentChunk.eval_adjacency.  self.end and other.start index the span
\* lists: an empty list raises IndexError.
chunk_eval_adjacency_raises(self, other) ==
    self.paragraph_metadata = <<>> \/ other.paragraph_metadata = <<>>

chunk_eval_adjacency(self, other) ==
    LET forward_adjacency == span_eval_adjacency(chunk_end(self), chunk_start(other))
        backward_adjacency == span_eval_adjacency(chunk_start(self), chunk_end(other))
    IN  IF AdjacencyTruthy(forward_adjacency) THEN forward_adjacency
        ELSE IF AdjacencyTruthy(backward_adjacency) THEN backward_adjacency
        ELSE "NONE"

\* DocumentChunk.to_text: the rows' slices joined by "\n"
chunk_to_text(chunk, row_getter) ==
    LET RECURSIVE join(_)
        join(i) ==
            LET md == chunk.paragraph_metadata[i]
                row == Slice(row_getter[md.src_index + 1], start(md), end(md))
            IN  IF i = Len(chunk.paragraph_metadata) THEN row
                ELSE row \o <<"\n">> \o join(i + 1)
    IN  IF chunk.paragraph_metadata = <<>> THEN <<>> ELSE join(1)

\* DocumentChunk.to_paragraphs, consumed to its end: each span with its slice
chunk_to_paragraphs(chunk, row_getter) ==
    [i \in 1..Len(chunk.paragraph_metadata) |->
        <<chunk.paragraph_metadata[i],
          Slice(row_getter[chunk.paragraph_metadata[i].src_index + 1],
                start(chunk.paragraph_metadata[i]), end(chunk.paragraph_metadata[i]))>>]

chunk_from_single_paragraph(index_, text) ==
    DocumentChunk(<<span_from_single_paragraph(index_, text)>>, UNTRANSLATED, <<>>)

----------------------------------------------------------------------------
(* chunking/base.py: BaseDocumentChunks *)

\* variant: the paragraphs are numbered after the blank ones are dropped
from_paragraphs_renumbered(paras) ==
    LET RECURSIVE build(_, _)
        build(i, kept) ==
            IF i > Len(paras) THEN <<>>
            ELSE IF strip(paras[i]) # <<>>
            THEN <<chunk_from_single_paragraph(kept, paras[i])>> \o build(i + 1, kept + 1)
            ELSE build(i + 1, kept)
    IN  build(1, 0)

\* from_paragraphs: one chunk for each paragraph that is not blank
from_paragraphs(paras) ==
    LET RECURSIVE build(_)
        build(i) ==
            IF i > Len(paras) THEN <<>>
            ELSE (IF strip(paras[i]) # <<>>
                  THEN <<chunk_from_single_paragraph(i - 1, paras[i])>> ELSE <<>>)
                 \o build(i + 1)
    IN  build(1)

\* variant: a merged chunk has to stay below the ceiling
absorbs_below(current_chunk, chunk, max_length) ==
    /\ chunk_eval_adjacency(current_chunk, chunk) = "FORWARD"
    /\ chunk_len(current_chunk) + chunk_len(chunk) < max_length

\* the condition under which current_chunk takes the spans of chunk
absorbs(current_chunk, chunk, max_length) ==
    /\ chunk_eval_adjacency(current_chunk, chunk) = "FORWARD"
    /\ chunk_len(current_chunk) + chunk_len(chunk) <= max_length

\* variant: the chunk absorbed is dropped with its spans
RECURSIVE merge_loop_dropping(_, _, _, _, _)
merge_loop_dropping(coll, cur, k, merged, max_length) ==
    IF k > Len(coll)
    THEN [raised |-> FALSE, collection |-> Append(merged, coll[cur])]
    ELSE IF chunk_eval_adjacency_raises(coll[cur], coll[k])
    THEN [raised |-> TRUE, collection |-> coll]
    ELSE IF absorbs(coll[cur], coll[k], max_length)
    THEN merge_loop_dropping(coll, cur, k + 1, merged, max_length)
    ELSE merge_loop_dropping(coll, k, k + 1, Append(merged, coll[cur]), max_length)

\* The loop of merge_pass.  coll: the chunk objects of self.collection, as
\* extended in place so far; cur: position of current_chunk; k: position of
\* the chunk the loop looks at; merged: merged_chunks.
RECURSIVE merge_loop(_, _, _, _, _)
merge_loop(coll, cur, k, merged, max_length) ==
    IF k > Len(coll)
    THEN [raised |-> FALSE, collection |-> Append(merged, coll[cur])]
    ELSE IF chunk_eval_adjacency_raises(coll[cur], coll[k])
    THEN [raised |-> TRUE, collection |-> coll]
    ELSE IF absorbs(coll[cur], coll[k], max_length)
    THEN merge_loop([coll EXCEPT ![cur].paragraph_metadata = @ \o coll[k].paragraph_metadata],
                    cur, k + 1, merged, max_length)
    ELSE merge_loop(coll, k, k + 1, Append(merged, coll[cur]), max_length)

\* variant: a chunk takes its neighbour at most once, and the pass goes on
\* with the chunk after the two
merge_pass_pairs(coll, max_length) ==
    LET RECURSIVE pairs(_, _)
        pairs(k, merged) ==
            IF k > Len(coll) THEN merged
            ELSE IF k < Len(coll) /\ absorbs(coll[k], coll[k + 1], max_length)
            THEN pairs(k + 2, Append(merged, [coll[k] EXCEPT !.paragraph_metadata =
                                                  @ \o coll[k + 1].paragraph_metadata]))
            ELSE pairs(k + 1, Append(merged, coll[k]))
    IN  [raised |-> FALSE, collection |-> pairs(1, <<>>)]

merge_pass(coll, max_length) ==
    IF Len(coll) <= 1
    THEN [raised |-> FALSE, collection |-> coll]
    ELSE merge_loop(coll, 1, 2, <<>>, max_length)

\* variant: the left part is measured without the chunk being built
is_potential_split_alone(pair, paragraph_metadata, next_chunk_length, max_length) ==
    end(pair[1]) - start(paragraph_metadata) <= max_length

\* the filter of potential_splits: the left part still fits the chunk being built
is_potential_split(pair, paragraph_metadata, next_chunk_length, max_length) ==
    end(pair[1]) - start(paragraph_metadata) + next_chunk_length <= max_length

\* variant: the warning names the length of the row
unsplittable_chunk_own_length(paragraph_metadata, max_length) ==
    DocumentChunk(<<paragraph_metadata>>, UNTRANSLATED,
                  <<MaxLengthWarning(length(paragraph_metadata))>>)

\* the chunk made of a row no splitter could split
unsplittable_chunk(paragraph_metadata, max_length) ==
    DocumentChunk(<<paragraph_metadata>>, UNTRANSLATED, <<MaxLengthWarning(max_length)>>)

\* variant: the first potential split of a splitter is taken
RECURSIVE try_splitters_leftmost(_, _, _, _, _)
try_splitters_leftmost(paragraph_metadata, row_text, splitters, next_chunk_length, max_length) ==
    IF splitters = <<>> THEN [raised |-> FALSE, found |-> FALSE, pair |-> <<>>]
    ELSE LET first_of(potential_splits) ==
                 IF potential_splits = <<>>
                 THEN try_splitters_leftmost(paragraph_metadata, row_text, Tail(splitters),
                                             next_chunk_length, max_length)
                 ELSE [raised |-> FALSE, found |-> TRUE, pair |-> potential_splits[1]]
             filter(splits) ==
                 IF splits.raised THEN [raised |-> TRUE, found |-> FALSE, pair |-> <<>>]
                 ELSE first_of(SelectSeq(splits.pairs,
                                         LAMBDA pair :
                                             is_potential_split(pair, paragraph_metadata,
                                                                next_chunk_length, max_length)))
         IN  Bind(splititer(paragraph_metadata, row_text, Head(splitters)), filter)

\* The loop over the splitters for one row that overflows the chunk being
\* built: the first splitter with a potential split decides.
RECURSIVE try_splitters(_, _, _, _, _)
try_splitters(paragraph_metadata, row_text, splitters, next_chunk_length, max_length) ==
    IF splitters = <<>> THEN [raised |-> FALSE, found |-> FALSE, pair |-> <<>>]
    ELSE LET last_of(potential_splits) ==
                 IF potential_splits = <<>>
                 THEN try_splitters(paragraph_metadata, row_text, Tail(splitters),
                                    next_chunk_length, max_length)
                 ELSE [raised |-> FALSE, found |-> TRUE,
                       pair |-> potential_splits[Len(potential_splits)]]
             filter(splits) ==
                 IF splits.raised THEN [raised |-> TRUE, found |-> FALSE, pair |-> <<>>]
                 ELSE last_of(SelectSeq(splits.pairs,
                                        LAMBDA pair :
                                            is_potential_split(pair, paragraph_metadata,
                                                               next_chunk_length, max_length)))
         IN  Bind(splititer(paragraph_metadata, row_text, Head(splitters)), filter)

\* variant: the spans accumulated at the end of the loop are made a chunk
\* also when there are none
RECURSIVE split_loop_flush_always(_, _, _, _, _, _, _, _)
split_loop_flush_always(chunk_rows, next_chunk_metadata, next_chunk_length, split_chunks, warned, row_getter, max_length, splitters) ==
    IF chunk_rows = <<>>
    THEN [raised |-> FALSE, rows |-> <<>>, warned |-> warned,
          chunks |-> Append(split_chunks,
                            DocumentChunk(next_chunk_metadata, UNTRANSLATED, <<>>))]
    ELSE
    LET paragraph_metadata == Head(chunk_rows)
        popped == Tail(chunk_rows)
        row_text == row_getter[paragraph_metadata.src_index + 1]
        raise == [raised |-> TRUE, rows |-> popped, warned |-> warned, chunks |-> <<>>]
    IN  IF to_text_raises(paragraph_metadata, row_text) THEN raise
        ELSE IF next_chunk_length + length(paragraph_metadata) <= max_length
        THEN split_loop_flush_always(popped, Append(next_chunk_metadata, paragraph_metadata),
                        next_chunk_length + length(paragraph_metadata),
                        split_chunks, warned, row_getter, max_length, splitters)
        ELSE
        LET cut(split) ==
                IF split.raised THEN raise
                ELSE IF split.found
                THEN split_loop_flush_always(<<split.pair[2]>> \o popped, <<>>, 0,
                                Append(split_chunks,
                                       DocumentChunk(Append(next_chunk_metadata, split.pair[1]),
                                                     UNTRANSLATED, <<>>)),
                                warned, row_getter, max_length, splitters)
                ELSE split_loop_flush_always(popped, next_chunk_metadata, next_chunk_length,
                                Append(split_chunks,
                                       unsplittable_chunk(paragraph_metadata, max_length)),
                                Append(warned, [max_length |-> max_length,
                                                section |-> paragraph_metadata]),
                                row_getter, max_length, splitters)
        IN  cut(try_splitters(paragraph_metadata, row_text, splitters,
                              next_chunk_length, max_length))

\* The while loop of _split_chunk.  chunk_rows is the chunk's own span list,
\* popped and re-filled in place; warned: the LOG.warning records.
RECURSIVE split_loop(_, _, _, _, _, _, _, _)
split_loop(chunk_rows, next_chunk_metadata, next_chunk_length, split_chunks, warned, row_getter, max_length, splitters) ==
    IF chunk_rows = <<>>
    THEN [raised |-> FALSE, rows |-> <<>>, warned |-> warned,
          chunks |-> IF next_chunk_metadata # <<>>
                     THEN Append(split_chunks,
                                 DocumentChunk(next_chunk_metadata, UNTRANSLATED, <<>>))
                     ELSE split_chunks]
    ELSE
    LET paragraph_metadata == Head(chunk_rows)
        popped == Tail(chunk_rows)
        row_text == row_getter[paragraph_metadata.src_index + 1]
        raise == [raised |-> TRUE, rows |-> popped, warned |-> warned, chunks |-> <<>>]
    IN  IF to_text_raises(paragraph_metadata, row_text) THEN raise
        ELSE IF next_chunk_length + length(paragraph_metadata) <= max_length
        THEN split_loop(popped, Append(next_chunk_metadata, paragraph_metadata),
                        next_chunk_length + length(paragraph_metadata),
                        split_chunks, warned, row_getter, max_length, splitters)
        ELSE
        LET cut(split) ==
                IF split.raised THEN raise
                ELSE IF split.found
                THEN split_loop(<<split.pair[2]>> \o popped, <<>>, 0,
                                Append(split_chunks,
                                       DocumentChunk(Append(next_chunk_metadata, split.pair[1]),
                                                     UNTRANSLATED, <<>>)),
                                warned, row_getter, max_length, splitters)
                ELSE split_loop(popped, next_chunk_metadata, next_chunk_length,
                                Append(split_chunks,
                                       unsplittable_chunk(paragraph_metadata, max_length)),
                                Append(warned, [max_length |-> max_length,
                                                section |-> paragraph_metadata]),
                                row_getter, max_length, splitters)
        IN  cut(try_splitters(paragraph_metadata, row_text, splitters,
                              next_chunk_length, max_length))

\* variant: a chunk that fits is rebuilt from its spans
_split_chunk_rebuilt(chunk, row_getter, max_length, splitters) ==
    IF chunk_len(chunk) <= max_length
    THEN [raised |-> FALSE, rows |-> chunk.paragraph_metadata, warned |-> <<>>,
          chunks |-> <<DocumentChunk(chunk.paragraph_metadata, UNTRANSLATED, <<>>)>>]
    ELSE split_loop(chunk.paragraph_metadata, <<>>, 0, <<>>, <<>>,
                    row_getter, max_length, splitters)

_split_chunk(chunk, row_getter, max_length, splitters) ==
    IF chunk_len(chunk) <= max_length
    THEN [raised |-> FALSE, rows |-> chunk.paragraph_metadata, warned |-> <<>>,
          chunks |-> <<chunk>>]
    ELSE split_loop(chunk.paragraph_metadata, <<>>, 0, <<>>, <<>>,
                    row_getter, max_length, splitters)

\* The comprehension of split_pass over the chunks.  coll: the chunk objects,
\* their span lists as _split_chunk has left them; out: the chunks yielded.
RECURSIVE split_pass_loop(_, _, _, _, _, _, _)
split_pass_loop(coll, k, out, warned, row_getter, max_length, splitters) ==
    IF k > Len(coll)
    THEN [raised |-> FALSE, collection |-> out, warned |-> warned]
    ELSE LET extend(r, left) ==
                 IF r.raised
                 THEN [raised |-> TRUE, collection |-> left, warned |-> warned \o r.warned]
                 ELSE split_pass_loop(left, k + 1, out \o r.chunks, warned \o r.warned,
                                      row_getter, max_length, splitters)
             digest(r) == extend(r, [coll EXCEPT ![k].paragraph_metadata = r.rows])
         IN  digest(_split_chunk(coll[k], row_getter, max_length, splitters))

split_pass(coll, row_getter, max_length, splitters) ==
    IF coll = <<>>
    THEN [raised |-> FALSE, collection |-> coll, warned |-> <<>>]
    ELSE split_pass_loop(coll, 1, <<>>, <<>>, row_getter, max_length, splitters)

\* override_dict[pindex]: the spans of paragraph pindex, in the order met
overrides_of(coll, pindex) ==
    SelectSeq(Flatten([i \in 1..Len(coll) |-> coll[i].paragraph_metadata]),
              LAMBDA span : span.src_index = pindex)

\* The inner loop of to_paragraph_exports_iter over one paragraph's overrides
RECURSIVE apply_overrides(_, _, _, _)
apply_overrides(paragraph_overrides, src_text, final_paragraph_text, insertion_point) ==
    IF paragraph_overrides = <<>>
    THEN IF insertion_point < Len(src_text)
         THEN final_paragraph_text \o Slice(src_text, insertion_point, Len(src_text))
         ELSE final_paragraph_text
    ELSE LET override == Head(paragraph_overrides)
             copied == IF start(override) > insertion_point
                       THEN final_paragraph_text
                            \o Slice(src_text, insertion_point, start(override))
                       ELSE final_paragraph_text
         IN  apply_overrides(Tail(paragraph_overrides), src_text,
                             copied \o to_text(override, src_text), end(override))

\* to_paragraph_exports_iter, consumed to its end: the rows yielded, and
\* whether to_text raised on the way
RECURSIVE exports_from(_, _, _, _)
exports_from(coll, src_getter, pindex, total_rows) ==
    IF pindex >= total_rows THEN [raised |-> FALSE, rows |-> <<>>]
    ELSE LET paragraph_overrides == overrides_of(coll, pindex)
             src_text == src_getter[pindex + 1]
             rest == exports_from(coll, src_getter, pindex + 1, total_rows)
         IN  IF \E i \in 1..Len(paragraph_overrides) :
                    to_text_raises(paragraph_overrides[i], src_text)
             THEN [raised |-> TRUE, rows |-> <<>>]
             ELSE [raised |-> rest.raised,
                   rows |-> <<apply_overrides(paragraph_overrides, src_text, <<>>, 0)>>
                            \o rest.rows]

\* variant: only the paragraphs with an override are yielded
to_paragraph_exports_iter_overridden(coll, src_getter, total_rows) ==
    LET r == exports_from(coll, src_getter, 0, total_rows)
        RECURSIVE pick(_)
        pick(i) == IF i > Len(r.rows) THEN <<>>
                   ELSE (IF overrides_of(coll, i - 1) # <<>> THEN <<r.rows[i]>> ELSE <<>>)
                        \o pick(i + 1)
    IN  [raised |-> r.raised, rows |-> pick(1)]

to_paragraph_exports_iter(coll, src_getter, total_rows) ==
    exports_from(coll, src_getter, 0, total_rows)

----------------------------------------------------------------------------
(* The collection of one document under merge passes, split passes and an    *)
(* export.  An exception of a pass ends the run: it propagates to the        *)
(* caller, who sees the collection as the pass has left it.  An export       *)
(* reads the collection and changes nothing, so the passes after it are the  *)
(* passes of the state it was called in: a run is followed up to its export. *)

\* the texts of exactly n characters
TextsOfLen(n) == [1..n -> Alphabet]

\* the documents of size n or less
RECURSIVE DocumentsOf(_)
DocumentsOf(n) ==
    {<<>>} \cup UNION {{<<text>> \o rest : text \in TextsOfLen(m),
                                         rest \in DocumentsOf(n - m - 1)}
                       : m \in 0..(n - 1)}

Documents == DocumentsOf(MaxDocSize)

\* the ceilings a pass is called with (PositiveInt): up to the longest paragraph
Ceilings == 1..(MaxDocSize - 1)

\* the splitter lists a split pass is called with: priority lists of at most
\* two distinct splitters
SplitterLists ==
    {<<>>} \cup {<<s>> : s \in PassSplitters}
           \cup {<<s, t>> : <<s, t>> \in {p \in PassSplitters \X PassSplitters : p[1] # p[2]}}

NoCall == [fn |-> "none", returned |-> FALSE]

Called(op, max_length, total_rows, raised) ==
    [op |-> op, max_length |-> max_length, total_rows |-> total_rows, raised |-> raised]

\* the run goes on: no call has raised, and the export has not been made
Running == ~last.raised /\ last.op # "to_paragraph_exports_iter"

Init ==
    /\ paragraphs \in Documents
    /\ collection = from_paragraphs(paragraphs)
    /\ last = Called("from_paragraphs", 0, 0, FALSE)
    /\ exports = <<>>
    /\ log = <<>>
    /\ call = NoCall

MergePass ==
    /\ Running
    /\ \E max_length \in Ceilings :
         \E r \in {merge_pass(collection, max_length)} :
             /\ collection' = r.collection
             /\ last' = Called("merge_pass", max_length, 0, r.raised)
    /\ exports' = <<>>
    /\ log' = <<>>
    /\ UNCHANGED <<paragraphs, call>>

SplitPass ==
    /\ Running
    /\ \E max_length \in Ceilings, splitters \in SplitterLists :
         \E r \in {split_pass(collection, paragraphs, max_length, splitters)} :
             /\ collection' = r.collection
             /\ last' = Called("split_pass", max_length, 0, r.raised)
             /\ log' = r.warned
    /\ exports' = <<>>
    /\ UNCHANGED <<paragraphs, call>>

Export ==
    /\ Running
    /\ \E total_rows \in 0..Len(paragraphs) :
         \E r \in {to_paragraph_exports_iter(collection, paragraphs, total_rows)} :
             /\ exports' = r.rows
             /\ last' = Called("to_paragraph_exports_iter", 0, total_rows, r.raised)
    /\ log' = <<>>
    /\ UNCHANGED <<paragraphs, collection, call>>

Next == MergePass \/ SplitPass \/ Export

Spec == Init /\ [][Next]_vars

----------------------------------------------------------------------------
(* Calls of the adjacency functions on arguments drawn from bounded sets *)

\* the well-formed spans: 0 <= start < end <= src_length
SpanArgs ==
    {ParagraphSpan(i, n, <<>>, <<s, e>>) :
        <<i, n, s, e>> \in {q \in (0..MaxSrcIndex) \X (1..MaxSrcLength)
                                  \X (0..MaxSrcLength) \X (1..MaxSrcLength) :
                              q[3] < q[4] /\ q[4] <= q[2]}}

\* spans of one document: one length for each paragraph
SameDocument(spans) ==
    \A a \in spans, b \in spans : a.src_index = b.src_index => a.src_length = b.src_length

\* chunks of one or two spans, the second continuing the first
ChunkArgs ==
    {DocumentChunk(<<a>>, UNTRANSLATED, <<>>) : a \in SpanArgs}
    \cup {DocumentChunk(<<p[1], p[2]>>, UNTRANSLATED, <<>>) :
            p \in {q \in SpanArgs \X SpanArgs :
                     SameDocument({q[1], q[2]}) /\ span_eval_adjacency(q[1], q[2]) = "FORWARD"}}

SpansOf(chunk) == {chunk.paragraph_metadata[i] : i \in 1..Len(chunk.paragraph_metadata)}

Pending == "pending"

InitAdjacency ==
    /\ paragraphs = <<>>
    /\ collection = <<>>
    /\ last = Called("none", 0, 0, FALSE)
    /\ exports = <<>>
    /\ log = <<>>
    /\ \/ \E a \in SpanArgs, b \in SpanArgs :
            /\ SameDocument({a, b})
            /\ call = [fn |-> "ParagraphSpan.eval_adjacency",
                       self |-> a, other |-> b, ret |-> Pending, returned |-> FALSE]
       \/ \E c \in ChunkArgs, d \in ChunkArgs :
            /\ SameDocument(SpansOf(c) \cup SpansOf(d))
            /\ call = [fn |-> "DocumentChunk.eval_adjacency",
                       self |-> c, other |-> d, ret |-> Pending, returned |-> FALSE]

EvalSpanAdjacency ==
    /\ call.fn = "ParagraphSpan.eval_adjacency"
    /\ ~call.returned
    /\ call' = [call EXCEPT !.returned = TRUE, !.ret = span_eval_adjacency(call.self, call.other)]
    /\ UNCHANGED <<paragraphs, collection, last, exports, log>>

EvalChunkAdjacency ==
    /\ call.fn = "DocumentChunk.eval_adjacency"
    /\ ~call.returned
    /\ ~chunk_eval_adjacency_raises(call.self, call.other)
    /\ call' = [call EXCEPT !.returned = TRUE, !.ret = chunk_eval_adjacency(call.self, call.other)]
    /\ UNCHANGED <<paragraphs, collection, last, exports, log>>

NextAdjacency == EvalSpanAdjacency \/ EvalChunkAdjacency

SpecAdjacency == InitAdjacency /\ [][NextAdjacency]_vars

----------------------------------------------------------------------------
(* split_pass step by step: the comprehension over the chunks and, inside   *)
(* _split_chunk, the while loop over chunk_rows, one iteration at a time    *)
(* (SpecSplit, and SpecSplitLive with the fairness of a running call)       *)

\* the collections a split pass is called on: an ingested document, as it
\* is or after a merge pass
SplitCollections(paras) ==
    {from_paragraphs(paras)}
    \cup {merge_pass(from_paragraphs(paras), max_length).collection : max_length \in Ceilings}

\* the splitter lists of the call: every splitter alone, so that every
\* inclusion policy is met, and the lists of the passes
SplitCallSplitterLists == SplitterLists \cup {<<s>> : s \in Splitters}

\* no document yet, and no call
InitSplit ==
    /\ paragraphs = <<>>
    /\ collection = <<>>
    /\ last = Called("none", 0, 0, FALSE)
    /\ exports = <<>>
    /\ log = <<>>
    /\ call = NoCall

\* the caller ingests a document, merges it or not, and calls split_pass
SplitCall ==
    /\ call = NoCall
    /\ \E paras \in Documents :
           /\ paragraphs' = paras
           /\ collection' \in SplitCollections(paras)
    /\ \E max_length \in Ceilings, splitters \in SplitCallSplitterLists :
           call' = [fn |-> "split_pass", returned |-> FALSE, pc |-> "for",
                    max_length |-> max_length, splitters |-> splitters,
                    k |-> 1, out |-> <<>>,
                    next_chunk_metadata |-> <<>>, next_chunk_length |-> 0,
                    split_chunks |-> <<>>]
    /\ last' = Called("from_paragraphs", 0, 0, FALSE)
    /\ UNCHANGED <<exports, log>>

\* the call has raised: the exception leaves the collection as it is
SplitRaise ==
    /\ call' = [call EXCEPT !.returned = TRUE, !.pc = "raised"]
    /\ last' = Called("split_pass", call.max_length, 0, TRUE)

\* split_pass: the next chunk of the comprehension, the test of _split_chunk
\* on its length, and at the end the assignment to self.collection
SplitNextChunk ==
    /\ call.fn = "split_pass" /\ call.pc = "for"
    /\ IF collection = <<>> \/ call.k > Len(collection)
       THEN /\ collection' = IF collection = <<>> THEN collection ELSE call.out
            /\ call' = [call EXCEPT !.returned = TRUE, !.pc = "returned"]
            /\ last' = Called("split_pass", call.max_length, 0, FALSE)
       ELSE /\ IF chunk_len(collection[call.k]) <= call.max_length
               THEN call' = [call EXCEPT !.k = @ + 1,
                                         !.out = Append(@, collection[call.k])]
               ELSE call' = [call EXCEPT !.pc = "while",
                                         !.next_chunk_metadata = <<>>,
                                         !.next_chunk_length = 0,
                                         !.split_chunks = <<>>]
            /\ UNCHANGED <<collection, last>>
    /\ UNCHANGED <<paragraphs, exports, log>>

\* one iteration of the while loop: chunk_rows is the span list of the chunk
SplitIterate ==
    /\ call.fn = "split_pass" /\ call.pc = "while"
    /\ collection[call.k].paragraph_metadata # <<>>
    /\ LET chunk_rows == collection[call.k].paragraph_metadata
           paragraph_metadata == Head(chunk_rows)
           popped == Tail(chunk_rows)
           row_text == paragraphs[paragraph_metadata.src_index + 1]
       IN  IF to_text_raises(paragraph_metadata, row_text)
           THEN /\ SplitRaise
                /\ collection' = [collection EXCEPT ![call.k].paragraph_metadata = popped]
                /\ UNCHANGED log
           ELSE IF call.next_chunk_length + length(paragraph_metadata) <= call.max_length
           THEN /\ call' = [call EXCEPT
                               !.next_chunk_metadata = Append(@, paragraph_metadata),
                               !.next_chunk_length = @ + length(paragraph_metadata)]
                /\ collection' = [collection EXCEPT ![call.k].paragraph_metadata = popped]
                /\ UNCHANGED <<last, log>>
           ELSE \E split \in {try_splitters(paragraph_metadata, row_text, call.splitters,
                                            call.next_chunk_length, call.max_length)} :
                    IF split.raised
                    THEN /\ SplitRaise
                         /\ collection' = [collection EXCEPT
                                              ![call.k].paragraph_metadata = popped]
                         /\ UNCHANGED log
                    ELSE IF split.found
                    THEN /\ call' = [call EXCEPT
                                        !.split_chunks =
                                            Append(@, DocumentChunk(
                                                Append(call.next_chunk_metadata, split.pair[1]),
                                                UNTRANSLATED, <<>>)),
                                        !.next_chunk_metadata = <<>>,
                                        !.next_chunk_length = 0]
                         /\ collection' = [collection EXCEPT ![call.k].paragraph_metadata =
                                                                <<split.pair[2]>> \o popped]
                         /\ UNCHANGED <<last, log>>
                    ELSE /\ call' = [call EXCEPT
                                        !.split_chunks =
                                            Append(@, unsplittable_chunk(paragraph_metadata,
                                                                         call.max_length))]
                         /\ log' = Append(log, [max_length |-> call.max_length,
                                                section |-> paragraph_metadata])
                         /\ collection' = [collection EXCEPT
                                              ![call.k].paragraph_metadata = popped]
                         /\ UNCHANGED last
    /\ UNCHANGED <<paragraphs, exports>>

\* the end of the while loop: the spans accumulated make the last chunk, and
\* the comprehension takes the chunks returned
SplitFlush ==
    /\ call.fn = "split_pass" /\ call.pc = "while"
    /\ collection[call.k].paragraph_metadata = <<>>
    /\ call' = [call EXCEPT
                   !.pc = "for",
                   !.k = @ + 1,
                   !.out = @ \o (IF call.next_chunk_metadata # <<>>
                                 THEN Append(call.split_chunks,
                                             DocumentChunk(call.next_chunk_metadata,
                                                           UNTRANSLATED, <<>>))
                                 ELSE call.split_chunks),
                   !.next_chunk_metadata = <<>>,
                   !.next_chunk_length = 0,
                   !.split_chunks = <<>>]
    /\ UNCHANGED <<paragraphs, collection, last, exports, log>>

NextSplit == SplitCall \/ SplitNextChunk \/ SplitIterate \/ SplitFlush

SpecSplit == InitSplit /\ [][NextSplit]_vars

\* a call that has started is run: the interpreter takes the next step of
\* the comprehension and of the loop for as long as there is one
SpecSplitLive == SpecSplit /\ WF_vars(SplitNextChunk \/ SplitIterate \/ SplitFlush)

----------------------------------------------------------------------------
(* Properties of the passes and of the export (Spec) *)

AllSpans(coll) == Flatten([i \in 1..Len(coll) |-> coll[i].paragraph_metadata])

\* span a lies before span b in the document, by (paragraph index, start)
Precedes(a, b) ==
    \/ a.src_index < b.src_index
    \/ a.src_index = b.src_index /\ start(a) < start(b)

\* the spans of the collection, read chunk by chunk, go forward in the document
InDocumentOrder(coll) ==
    \A i \in 1..Len(AllSpans(coll)), j \in 1..Len(AllSpans(coll)) :
        i < j => Precedes(AllSpans(coll)[i], AllSpans(coll)[j])

Returned(op) == last.op = op /\ ~last.raised

\* C1: the round-trip law.  After any sequence of merge and split passes on
\* the collection built from P, an export over all of P with every chunk
\* untranslated yields P.
C1_RoundTrip ==
    (Returned("to_paragraph_exports_iter") /\ last.total_rows = Len(paragraphs))
        => exports = paragraphs

\* C2: the ceiling invariant.  After a split pass, a chunk longer than the
\* ceiling of the pass carries a warning.
C2_CeilingInvariant ==
    Returned("split_pass") =>
        \A i \in 1..Len(collection) :
            chunk_len(collection[i]) > last.max_length => collection[i].warnings # <<>>

\* a split pass has left a chunk over its ceiling next to chunks it has cut to fit
C2_Witness ==
    /\ Returned("split_pass")
    /\ \E i \in 1..Len(collection) : chunk_len(collection[i]) > last.max_length
    /\ \E i \in 1..Len(collection) :
           /\ collection[i].warnings = <<>>
           /\ collection[i].paragraph_metadata[1].char_range[1] > 0

\* C3: a split pass preserves document order.  If the spans of the collection
\* are in document order before the pass, they are in document order after it.
C3_SplitKeepsOrder ==
    [][(last'.op = "split_pass" /\ ~last'.raised /\ InDocumentOrder(collection))
           => InDocumentOrder(collection')]_vars

\* C4: a span longer than the ceiling that no splitter can cut to fit is
\* emitted as a chunk of its own: that one span, its range as it was, and a
\* warning that names the ceiling.
C4_UnsplittableSpan ==
    Returned("split_pass") =>
        \A k \in 1..Len(log) :
            length(log[k].section) > last.max_length =>
                \E i \in 1..Len(collection) :
                    /\ collection[i].paragraph_metadata = <<log[k].section>>
                    /\ collection[i].warnings = <<MaxLengthWarning(last.max_length)>>

\* a split pass has met a span over its ceiling that its splitters could not cut
C4_Witness ==
    /\ Returned("split_pass")
    /\ \E k \in 1..Len(log) : length(log[k].section) > last.max_length

\* the greedy left-to-right merge: the running chunk takes the next chunk
\* exactly when it is FORWARD of it and the two fit the ceiling together
RECURSIVE GreedyMerge(_, _, _)
GreedyMerge(running, rest, max_length) ==
    IF rest = <<>> THEN <<running>>
    ELSE IF /\ chunk_eval_adjacency(running, Head(rest)) = "FORWARD"
            /\ chunk_len(running) + chunk_len(Head(rest)) <= max_length
    THEN GreedyMerge([running EXCEPT !.paragraph_metadata =
                                         @ \o Head(rest).paragraph_metadata],
                     Tail(rest), max_length)
    ELSE <<running>> \o GreedyMerge(Head(rest), Tail(rest), max_length)

\* C5: a merge pass is greedy from left to right.  Its result is the greedy
\* merge of the collection it was called on, and a chunk it has built from
\* two or more chunks is no longer than the ceiling.
C5_GreedyMerge ==
    [][(last'.op = "merge_pass" /\ ~last'.raised /\ collection # <<>>) =>
          /\ collection' = GreedyMerge(Head(collection), Tail(collection), last'.max_length)
          /\ \A i \in 1..Len(collection') :
                 (\A k \in 1..Len(collection) : collection[k] # collection'[i])
                     => chunk_len(collection'[i]) <= last'.max_length]_vars

\* a merge pass has merged a chain of three chunks into one
C5_Witness ==
    /\ Returned("merge_pass")
    /\ \E i \in 1..Len(collection) : Len(collection[i].paragraph_metadata) >= 3

\* C6: a merge pass is idempotent.  A second pass with the same ceiling leaves
\* the collection as the first has left it.
C6_MergeIdempotent ==
    Returned("merge_pass") =>
        merge_pass(collection, last.max_length) = [raised |-> FALSE, collection |-> collection]

\* a merge pass has merged some chunks and left several chunks
C6_Witness ==
    /\ Returned("merge_pass")
    /\ Len(collection) >= 2
    /\ \E i \in 1..Len(collection) : Len(collection[i].paragraph_metadata) >= 2

\* the spans are met in increasing order and do not overlap
Ascending(spans) ==
    \A i \in 1..Len(spans), j \in 1..Len(spans) : i < j => end(spans[i]) <= start(spans[j])

\* C10: an export yields exactly total_paragraphs strings in paragraph order,
\* and a paragraph that has no span in any chunk is yielded as its source text.
C10_ExportRows ==
    Returned("to_paragraph_exports_iter") =>
        /\ Len(exports) = last.total_rows
        /\ \A i \in 1..last.total_rows :
               Ascending(overrides_of(collection, i - 1)) => exports[i] = paragraphs[i]

\* an export of several paragraphs, one of them with no span in any chunk
C10_Witness ==
    /\ Returned("to_paragraph_exports_iter")
    /\ last.total_rows >= 2
    /\ \E i \in 1..last.total_rows :
           overrides_of(collection, i - 1) = <<>> /\ exports[i] = paragraphs[i]
    /\ \E i \in 1..last.total_rows : overrides_of(collection, i - 1) # <<>>

\* C17: when a split pass meets a span no rule can split while spans are
\* accumulated, the accumulated spans are closed out as a chunk before the
\* span is emitted as its own warned chunk: no chunk holds spans from before
\* and from after the unsplittable span, and the chunks of the spans before
\* it come before its chunk.
C17_AccumulatorClosed ==
    [][(last'.op = "split_pass" /\ ~last'.raised /\ InDocumentOrder(collection)) =>
          \A k \in 1..Len(log') :
              \A i \in 1..Len(collection') :
                  LET unsplittable == log'[k].section
                      spans == SpansOf(collection'[i])
                  IN  /\ ~(\E a \in spans, b \in spans :
                               Precedes(a, unsplittable) /\ Precedes(unsplittable, b))
                      /\ (\E a \in spans : Precedes(a, unsplittable)) =>
                             \A j \in 1..Len(collection') :
                                 collection'[j].paragraph_metadata = <<unsplittable>>
                                     => i < j]_vars

\* the chunks of old that fit the ceiling are found in new, as they were
\* and in their order
RECURSIVE KeptInOrder(_, _, _)
KeptInOrder(old, new, max_length) ==
    IF old = <<>> THEN TRUE
    ELSE IF chunk_len(Head(old)) <= max_length
    THEN \E j \in 1..Len(new) :
             /\ new[j] = Head(old)
             /\ KeptInOrder(Tail(old), SubSeq(new, j + 1, Len(new)), max_length)
    ELSE KeptInOrder(Tail(old), new, max_length)

\* C20: a split pass leaves every chunk that fits the ceiling unchanged: the
\* chunk stays in the collection with its spans, state and warnings, in its
\* place among the other chunks; a collection of fitting chunks stays as it is.
C20_FittingChunksKept ==
    [][(last'.op = "split_pass" /\ ~last'.raised) =>
          /\ KeptInOrder(collection, collection', last'.max_length)
          /\ (\A i \in 1..Len(collection) : chunk_len(collection[i]) <= last'.max_length)
                 => collection' = collection]_vars

\* a split pass has kept a chunk that an earlier pass with a lower ceiling
\* had warned about
C20_Witness ==
    /\ Returned("split_pass")
    /\ \E i \in 1..Len(collection) :
           /\ chunk_len(collection[i]) <= last.max_length
           /\ collection[i].warnings # <<>>
           /\ collection[i].warnings # <<MaxLengthWarning(last.max_length)>>

\* paragraph i of P (counted from 1) has a character that is no whitespace
NonBlank(P, i) == \E j \in 1..Len(P[i]) : ~IsSpace(P[i][j])

\* offsets of the first character that is no whitespace, and behind the last
FirstInk(text) == CHOOSE j \in 0..(Len(text) - 1) :
                      ~IsSpace(text[j + 1]) /\ \A h \in 1..j : IsSpace(text[h])
LastInk(text) == CHOOSE j \in 1..Len(text) :
                     ~IsSpace(text[j]) /\ \A h \in (j + 1)..Len(text) : IsSpace(text[h])

\* C14: ingestion.  from_paragraphs(P) makes one chunk of one span for each
\* paragraph that is not blank, in order, and none for a blank one; the span
\* has the paragraph's position in P, its length, and the range of its text
\* without leading and trailing whitespace; the chunk is UNTRANSLATED and
\* has no warnings.
C14_Ingestion ==
    last.op = "from_paragraphs" =>
        /\ Len(collection) = Cardinality({i \in 1..Len(paragraphs) : NonBlank(paragraphs, i)})
        /\ \A i \in 1..Len(paragraphs) :
               NonBlank(paragraphs, i) =>
                   LET chunk == collection[Cardinality({j \in 1..i : NonBlank(paragraphs, j)})]
                   IN  /\ Len(chunk.paragraph_metadata) = 1
                       /\ chunk.paragraph_metadata[1].src_index = i - 1
                       /\ chunk.paragraph_metadata[1].src_length = Len(paragraphs[i])
                       /\ chunk.paragraph_metadata[1].char_range
                              = <<FirstInk(paragraphs[i]), LastInk(paragraphs[i])>>
                       /\ chunk_len(chunk) = Len(strip(paragraphs[i]))
                       /\ chunk.state = UNTRANSLATED
                       /\ chunk.warnings = <<>>

\* a document ingested with a blank paragraph ahead of a paragraph that has
\* whitespace around its text
C14_Witness ==
    /\ last.op = "from_paragraphs"
    /\ \E i \in 1..Len(paragraphs), j \in 1..Len(paragraphs) :
           /\ i < j
           /\ ~NonBlank(paragraphs, i)
           /\ NonBlank(paragraphs, j)
           /\ IsSpace(paragraphs[j][1])
    /\ Len(collection) >= 1

\* paragraph p (counted from 0) of the document is blank: ingestion has dropped it
FilteredBlank(p) == p + 1 \in 1..Len(paragraphs) /\ ~NonBlank(paragraphs, p + 1)

\* chunks c and d lie on the two sides of a blank paragraph
SeparatedByBlank(c, d) ==
    \E p \in 0..(Len(paragraphs) - 1) :
        /\ FilteredBlank(p)
        /\ \A a \in SpansOf(c) : a.src_index < p
        /\ \A b \in SpansOf(d) : b.src_index > p

\* C21: adjacency across a gap is NONE.  Two spans whose paragraph indices
\* differ by two or more are classified NONE, and so are spans of consecutive
\* paragraphs unless the earlier one ends at its paragraph's end and the later
\* one starts at offset 0; a merge pass, whatever its ceiling, does not merge
\* two chunks that lie on the two sides of a blank paragraph.
C21_NoAdjacencyAcrossGap ==
    [][(last'.op = "merge_pass" /\ ~last'.raised) =>
          /\ \A i \in 1..Len(AllSpans(collection)), j \in 1..Len(AllSpans(collection)) :
                 LET a == AllSpans(collection)[i]
                     b == AllSpans(collection)[j]
                 IN  /\ b.src_index - a.src_index >= 2 =>
                            /\ span_eval_adjacency(a, b) = "NONE"
                            /\ span_eval_adjacency(b, a) = "NONE"
                     /\ (b.src_index - a.src_index = 1
                           /\ ~(end(a) = a.src_length /\ start(b) = 0)) =>
                            /\ span_eval_adjacency(a, b) = "NONE"
                            /\ span_eval_adjacency(b, a) = "NONE"
          /\ \A i \in 1..Len(collection), j \in 1..Len(collection) :
                 SeparatedByBlank(collection[i], collection[j]) =>
                     \A k \in 1..Len(collection') :
                         ~(/\ SpansOf(collection[i]) \cap SpansOf(collection'[k]) # {}
                           /\ SpansOf(collection[j]) \cap SpansOf(collection'[k]) # {})]_vars

\* a merge pass whose ceiling holds the whole document has left the chunks
\* on the two sides of a blank paragraph apart
C21_Witness ==
    /\ Returned("merge_pass")
    /\ last.max_length >= SumSeq([i \in 1..Len(collection) |-> chunk_len(collection[i])])
    /\ \E i \in 1..Len(collection), j \in 1..Len(collection) :
           SeparatedByBlank(collection[i], collection[j])

\* C22: chunks are contiguous.  In every chunk of a collection reached from
\* ingestion by merge and split passes, the spans are listed in strictly
\* increasing (paragraph index, start) order, and no span of another chunk
\* lies, in document order, between two spans of the chunk.
C22_ChunksContiguous ==
    (~last.raised /\ last.op \in {"from_paragraphs", "merge_pass", "split_pass"}) =>
        \A i \in 1..Len(collection) :
            LET spans == collection[i].paragraph_metadata
            IN  /\ \A h \in 1..Len(spans), k \in 1..Len(spans) :
                       h < k => Precedes(spans[h], spans[k])
                /\ \A j \in 1..Len(collection) :
                       j # i =>
                           \A b \in SpansOf(collection[j]) :
                               ~(\E a \in SpansOf(collection[i]), c \in SpansOf(collection[i]) :
                                     Precedes(a, b) /\ Precedes(b, c))

\* C23: every chunk of the collection holds at least one span, after
\* ingestion and after every merge pass and split pass that returns.
C23_NoEmptyChunk ==
    (~last.raised /\ last.op \in {"from_paragraphs", "merge_pass", "split_pass"}) =>
        \A i \in 1..Len(collection) : collection[i].paragraph_metadata # <<>>

\* a split pass has left several chunks and ended on a span it could not
\* cut, with no span left to make a last chunk of
C23_Witness ==
    /\ Returned("split_pass")
    /\ Len(collection) >= 2
    /\ log # <<>>
    /\ collection[Len(collection)].paragraph_metadata = <<log[Len(log)].section>>
    /\ collection[Len(collection)].warnings = <<MaxLengthWarning(last.max_length)>>
    /\ InDocumentOrder(collection)

\* C24: a failing split pass changes nothing.  When split_pass raises, the
\* collection and every chunk in it, the chunk's span list included, are as
\* they were before the call.
C24_FailedSplitKeepsAll ==
    [][(last'.op = "split_pass" /\ last'.raised) => collection' = collection]_vars

C28_WarningOverCeiling ==
    Returned("split_pass") =>
        \A k \in 1..Len(log) :
            /\ length(log[k].section) > last.max_length
            /\ \A i \in 1..Len(collection) :
                   (/\ collection[i].paragraph_metadata = <<log[k].section>>
                    /\ collection[i].warnings = <<MaxLengthWarning(last.max_length)>>)
                       => chunk_len(collection[i]) > last.max_length

\* C29: a merge pass changes only the grouping of the spans.  The span lists
\* of the chunks, concatenated in collection order, are the same before and
\* after the pass, and the pass does not add a chunk.
C29_MergeKeepsSpans ==
    [][(last'.op = "merge_pass" /\ ~last'.raised) =>
          /\ AllSpans(collection') = AllSpans(collection)
          /\ Len(collection') <= Len(collection)]_vars

\* a merge pass has put the spans of a chunk into a chunk that a split pass
\* had warned about
C29_Witness ==
    /\ Returned("merge_pass")
    /\ \E i \in 1..Len(collection) :
           /\ Len(collection[i].paragraph_metadata) >= 2
           /\ collection[i].warnings # <<>>

----------------------------------------------------------------------------
(* Properties of the adjacency functions (SpecAdjacency) *)

ReturnedFrom(fn) == call.fn = fn /\ call.returned

\* the decision table of span adjacency
AdjacencyTable(a, b) ==
    IF a.src_index = b.src_index
    THEN CASE end(a) = start(b) -> "FORWARD"
           [] start(a) = end(b) -> "BACKWARD"
           [] a.char_range = b.char_range -> "IDENTICAL"
           [] start(a) < end(b) /\ start(b) < end(a) /\ a.char_range # b.char_range
                 -> "OVERLAPPING"
           [] OTHER -> "NONE"
    ELSE CASE b.src_index = a.src_index + 1 /\ end(a) = a.src_length /\ start(b) = 0
                 -> "FORWARD"
           [] a.src_index = b.src_index + 1 /\ start(a) = 0 /\ end(b) = b.src_length
                 -> "BACKWARD"
           [] OTHER -> "NONE"

\* C7: ParagraphSpan.eval_adjacency agrees with the decision table on every
\* pair of well-formed spans, and returns one of the five values.
C7_AdjacencyTable ==
    ReturnedFrom("ParagraphSpan.eval_adjacency") =>
        /\ call.ret \in Adjacency
        /\ call.ret = AdjacencyTable(call.self, call.other)

\* a span that ends its paragraph was compared with the start of the next
C7_Witness ==
    /\ ReturnedFrom("ParagraphSpan.eval_adjacency")
    /\ call.other.src_index = call.self.src_index + 1
    /\ call.ret = "FORWARD"

\* C8: the mirror law.  a is FORWARD of b exactly when b is BACKWARD of a;
\* OVERLAPPING, IDENTICAL and NONE are returned both ways round; a span is
\* IDENTICAL to itself.
C8_MirrorLaw ==
    ReturnedFrom("ParagraphSpan.eval_adjacency") =>
        LET mirrored == span_eval_adjacency(call.other, call.self)
        IN  /\ call.ret = "FORWARD" <=> mirrored = "BACKWARD"
            /\ call.ret = "BACKWARD" <=> mirrored = "FORWARD"
            /\ call.ret \in {"OVERLAPPING", "IDENTICAL", "NONE"} <=> mirrored = call.ret
            /\ span_eval_adjacency(call.self, call.self) = "IDENTICAL"

\* the start of a paragraph was compared with a span that ends the paragraph before
C8_Witness ==
    /\ ReturnedFrom("ParagraphSpan.eval_adjacency")
    /\ call.self.src_index = call.other.src_index + 1
    /\ call.ret = "BACKWARD"

\* C9: DocumentChunk.eval_adjacency returns the adjacency of its last span to
\* the first span of the other chunk, and when that is NONE the adjacency of
\* its first span to the last span of the other chunk.
C9_ChunkAdjacency ==
    ReturnedFrom("DocumentChunk.eval_adjacency") =>
        LET forward == span_eval_adjacency(chunk_end(call.self), chunk_start(call.other))
            backward == span_eval_adjacency(chunk_start(call.self), chunk_end(call.other))
        IN  call.ret = IF forward # "NONE" THEN forward ELSE backward

----------------------------------------------------------------------------
(* Calls of single functions on arguments drawn from bounded sets, the      *)
(* arguments a caller is free to pass (SpecCalls)                           *)

\* the texts of at most MaxSrcLength characters
Texts == UNION {TextsOfLen(n) : n \in 0..MaxSrcLength}

\* collections of at most two chunks of one span each, built by a caller
\* from any well-formed spans of paragraph 0
CallerCollections ==
    LET chunks == {DocumentChunk(<<a>>, UNTRANSLATED, <<>>) :
                       a \in {b \in SpanArgs : b.src_index = 0}}
    IN  {<<>>} \cup {<<c>> : c \in chunks} \cup {<<c, d>> : c \in chunks, d \in chunks}

ExportCallArgs ==
    \E coll \in CallerCollections, text \in Texts \ {<<>>} :
        call = [fn |-> "BaseDocumentChunks.to_paragraph_exports_iter",
                self |-> coll, src_getter |-> <<text>>, total_rows |-> 1, ret |-> Pending, returned |-> FALSE]

CallExport ==
    /\ call.fn = "BaseDocumentChunks.to_paragraph_exports_iter"
    /\ ~call.returned
    /\ call' = [call EXCEPT !.returned = TRUE, !.ret = to_paragraph_exports_iter(call.self, call.src_getter,
                                                             call.total_rows)]
    /\ UNCHANGED <<paragraphs, collection, last, exports, log>>

\* ParagraphSpan(...) called with any integers around the valid ones
ConstructCallArgs ==
    \E src_index \in 0..MaxSrcIndex, src_length \in 0..MaxSrcLength,
       s \in -1..(MaxSrcLength + 1), e \in -1..(MaxSrcLength + 1) :
        call = [fn |-> "ParagraphSpan", src_index |-> src_index, src_length |-> src_length,
                char_range |-> <<s, e>>, ret |-> Pending, returned |-> FALSE]

\* the span returned, or the ValidationError raised
CallConstruct ==
    /\ call.fn = "ParagraphSpan"
    /\ ~call.returned
    /\ call' = [call EXCEPT !.returned = TRUE, !.ret =
                    IF ParagraphSpanAccepted(call.src_index, call.src_length, call.char_range)
                    THEN [raised |-> FALSE,
                          span |-> ParagraphSpan(call.src_index, call.src_length, <<>>,
                                                 call.char_range)]
                    ELSE [raised |-> TRUE, span |-> <<>>]]
    /\ UNCHANGED <<paragraphs, collection, last, exports, log>>

\* a span of paragraph 0 rendered from any text, as a span or as a chunk
RenderCallArgs ==
    \E a \in {b \in SpanArgs : b.src_index = 0}, text \in Texts :
        \/ call = [fn |-> "ParagraphSpan.to_text", self |-> <<a>>, src_getter |-> <<text>>,
                   ret |-> Pending, returned |-> FALSE]
        \/ \E fn \in {"DocumentChunk.to_text", "DocumentChunk.to_paragraphs"} :
               call = [fn |-> fn, self |-> <<DocumentChunk(<<a>>, UNTRANSLATED, <<>>)>>,
                       src_getter |-> <<text>>, ret |-> Pending, returned |-> FALSE]

\* ParagraphSpan.to_text: the slice, or the AssertionError
CallSpanToText ==
    /\ call.fn = "ParagraphSpan.to_text"
    /\ ~call.returned
    /\ call' = [call EXCEPT !.returned = TRUE, !.ret =
                    IF to_text_raises(call.self[1], call.src_getter[1])
                    THEN [raised |-> TRUE, rows |-> <<>>]
                    ELSE [raised |-> FALSE,
                          rows |-> <<to_text(call.self[1], call.src_getter[1])>>]]
    /\ UNCHANGED <<paragraphs, collection, last, exports, log>>

\* DocumentChunk.to_text and DocumentChunk.to_paragraphs
CallChunkToText ==
    /\ call.fn \in {"DocumentChunk.to_text", "DocumentChunk.to_paragraphs"}
    /\ ~call.returned
    /\ call' = [call EXCEPT !.returned = TRUE, !.ret =
                    [raised |-> FALSE,
                     rows |-> IF call.fn = "DocumentChunk.to_text"
                              THEN <<chunk_to_text(call.self[1], call.src_getter)>>
                              ELSE chunk_to_paragraphs(call.self[1], call.src_getter)]]
    /\ UNCHANGED <<paragraphs, collection, last, exports, log>>

\* the elements of the sequences handed to center_enumerate
Elements == {"x", "y"}

CenterCallArgs ==
    \E n \in 1..MaxSeqLen :
        \E enumerable \in [1..n -> Elements], clockwise \in BOOLEAN :
            call = [fn |-> "center_enumerate", enumerable |-> enumerable,
                    clockwise |-> clockwise, ret |-> Pending, returned |-> FALSE]

CallCenterEnumerate ==
    /\ call.fn = "center_enumerate"
    /\ ~call.returned
    /\ call' = [call EXCEPT !.returned = TRUE,
                            !.ret = center_enumerate(call.enumerable, call.clockwise)]
    /\ UNCHANGED <<paragraphs, collection, last, exports, log>>

\* the rows handed to the splitting functions, and the spans inside them
Rows == UNION {TextsOfLen(n) : n \in 1..MaxRowLength}
SpansIn(row_text) ==
    {ParagraphSpan(0, Len(row_text), <<>>, <<s, e>>) :
        <<s, e>> \in {q \in (0..Len(row_text)) \X (1..Len(row_text)) : q[1] < q[2]}}

\* lists of at most two different splitters
CallSplitterLists ==
    LET some == {Period, SentenceBreak, SentenceStart}
    IN  {<<>>} \cup {<<s>> : s \in some}
        \cup {<<p[1], p[2]>> : p \in {q \in some \X some : q[1] # q[2]}}

\* a row that overflows the chunk being built
SplittersCallArgs ==
    \E row_text \in Rows, splitters \in CallSplitterLists,
       next_chunk_length \in 0..1, max_length \in 1..MaxRowLength :
        \E paragraph_metadata \in SpansIn(row_text) :
            /\ next_chunk_length + length(paragraph_metadata) > max_length
            /\ call = [fn |-> "_split_chunk.splitters", self |-> paragraph_metadata,
                       row_text |-> row_text, splitters |-> splitters,
                       next_chunk_length |-> next_chunk_length, max_length |-> max_length,
                       ret |-> Pending, returned |-> FALSE]

CallSplitters ==
    /\ call.fn = "_split_chunk.splitters"
    /\ ~call.returned
    /\ call' = [call EXCEPT !.returned = TRUE,
                            !.ret = try_splitters(call.self, call.row_text, call.splitters,
                                                  call.next_chunk_length, call.max_length)]
    /\ UNCHANGED <<paragraphs, collection, last, exports, log>>

\* a span of a row and any of the splitters
SplititerCallArgs ==
    \E row_text \in Rows, splitter \in Splitters :
        \E self \in SpansIn(row_text) :
            call = [fn |-> "ParagraphSpan.splititer", self |-> self, src_text |-> row_text,
                    splitter |-> splitter, ret |-> Pending, returned |-> FALSE]

CallSplititer ==
    /\ call.fn = "ParagraphSpan.splititer"
    /\ ~call.returned
    /\ call' = [call EXCEPT !.returned = TRUE,
                            !.ret = splititer(call.self, call.src_text, call.splitter)]
    /\ UNCHANGED <<paragraphs, collection, last, exports, log>>

\* TranslationState, as the translation of a chunk sets it
TranslationStates == {UNTRANSLATED, LLM_TRANSLATED, USER_TRANSLATED, USER_EDITED}

\* the collection with its chunks in any states
Translated(coll) ==
    {[i \in 1..Len(coll) |-> [coll[i] EXCEPT !.state = states[i]]] :
        states \in [1..Len(coll) -> TranslationStates]}

\* a pass called on an ingested document of one or two paragraphs, some of
\* its chunks translated
PassCallArgs ==
    \E paras \in {<<t>> : t \in Texts} \cup {<<t, u>> : t \in Texts, u \in Texts},
       max_length \in 1..MaxSrcLength :
        \E coll \in Translated(from_paragraphs(paras)) :
            \/ call = [fn |-> "BaseDocumentChunks.merge_pass", self |-> coll,
                       src_getter |-> paras, max_length |-> max_length,
                       splitters |-> <<>>, ret |-> Pending, returned |-> FALSE]
            \/ \E splitters \in {<<>>, <<Period>>} :
                   call = [fn |-> "BaseDocumentChunks.split_pass", self |-> coll,
                           src_getter |-> paras, max_length |-> max_length,
                           splitters |-> splitters, ret |-> Pending, returned |-> FALSE]

CallMergePass ==
    /\ call.fn = "BaseDocumentChunks.merge_pass"
    /\ ~call.returned
    /\ call' = [call EXCEPT !.returned = TRUE,
                            !.ret = merge_pass(call.self, call.max_length)]
    /\ UNCHANGED <<paragraphs, collection, last, exports, log>>

CallSplitPass ==
    /\ call.fn = "BaseDocumentChunks.split_pass"
    /\ ~call.returned
    /\ call' = [call EXCEPT !.returned = TRUE,
                            !.ret = split_pass(call.self, call.src_getter,
                                               call.max_length, call.splitters)]
    /\ UNCHANGED <<paragraphs, collection, last, exports, log>>

InitCalls ==
    /\ paragraphs = <<>>
    /\ collection = <<>>
    /\ last = Called("none", 0, 0, FALSE)
    /\ exports = <<>>
    /\ log = <<>>
    /\ \/ ExportCallArgs
       \/ ConstructCallArgs
       \/ RenderCallArgs
       \/ CenterCallArgs
       \/ SplittersCallArgs
       \/ SplititerCallArgs
       \/ PassCallArgs

NextCalls ==
    \/ CallExport
    \/ CallConstruct
    \/ CallSpanToText
    \/ CallChunkToText
    \/ CallCenterEnumerate
    \/ CallSplitters
    \/ CallSplititer
    \/ CallMergePass
    \/ CallSplitPass

SpecCalls == InitCalls /\ [][NextCalls]_vars

----------------------------------------------------------------------------
(* Properties of single calls (SpecCalls) *)

\* the spans of the collection record the length the accessor's paragraph has
MatchesAccessor(coll, src_getter) ==
    \A i \in 1..Len(AllSpans(coll)) :
        AllSpans(coll)[i].src_length = Len(src_getter[AllSpans(coll)[i].src_index + 1])

\* C11: the export of an untranslated collection yields each paragraph's
\* source text, also when the paragraph's spans are met out of start order
\* or overlap: no character twice, none left out.
C11_ExportAnyOrder ==
    (/\ ReturnedFrom("BaseDocumentChunks.to_paragraph_exports_iter")
     /\ MatchesAccessor(call.self, call.src_getter))
        => call.ret = [raised |-> FALSE, rows |-> call.src_getter]

\* C12: the construction of a span is rejected whenever start >= end or
\* start or end lies outside [0, paragraph_length]: a span that is built
\* satisfies 0 <= start < end <= paragraph_length.
C12_ConstructionChecked ==
    (ReturnedFrom("ParagraphSpan") /\ ~call.ret.raised) =>
        /\ 0 <= start(call.ret.span)
        /\ start(call.ret.span) < end(call.ret.span)
        /\ end(call.ret.span) <= call.ret.span.src_length

\* the calls that render spans to text
RenderingPaths ==
    {"ParagraphSpan.to_text", "DocumentChunk.to_text", "DocumentChunk.to_paragraphs",
     "BaseDocumentChunks.to_paragraph_exports_iter"}

\* the spans a rendering call renders
RenderedSpans(c) ==
    IF c.fn = "ParagraphSpan.to_text" THEN c.self
    ELSE AllSpans(c.self)

\* C13: rendering a span fails when the text the accessor returns for its
\* paragraph has not the length the span records, on every rendering path
\* (ParagraphSpan.to_text, DocumentChunk.to_text, DocumentChunk.to_paragraphs,
\* export).
C13_MismatchFails ==
    (/\ call.fn \in RenderingPaths
     /\ call.returned
     /\ \E i \in 1..Len(RenderedSpans(call)) :
            RenderedSpans(call)[i].src_length
                # Len(call.src_getter[RenderedSpans(call)[i].src_index + 1]))
        => call.ret.raised

Distance(i, j) == IF i >= j THEN i - j ELSE j - i

\* C15: center_enumerate yields, for a sequence of any length that is not
\* empty and either direction, each (index, element) pair once: the index
\* len \div 2 first, then the indices on either side of the centre at growing
\* distance, at equal distance the higher side first when clockwise and the
\* lower side first otherwise, and never an index outside 0 .. len - 1.
C15_CenterEnumerate ==
    ReturnedFrom("center_enumerate") =>
        LET seq == call.enumerable
            centre == Len(seq) \div 2
            out == call.ret.yielded
        IN  /\ ~call.ret.raised
            /\ Len(out) = Len(seq)
            /\ \A k \in 1..Len(out) :
                   /\ out[k][1] \in 0..(Len(seq) - 1)
                   /\ out[k][2] = seq[out[k][1] + 1]
            /\ \A k \in 1..Len(out), h \in 1..Len(out) : k # h => out[k][1] # out[h][1]
            /\ out[1][1] = centre
            /\ \A k \in 1..Len(out), h \in 1..Len(out) :
                   k < h =>
                       /\ Distance(out[k][1], centre) <= Distance(out[h][1], centre)
                       /\ Distance(out[k][1], centre) = Distance(out[h][1], centre)
                              => (call.clockwise <=> out[k][1] > out[h][1])

\* the valid candidates of the k-th rule of the call: the left part fits
\* the ceiling together with the running length
ValidCandidates(c, k) ==
    LET pairs == splititer(c.self, c.row_text, c.splitters[k]).pairs
    IN  {pairs[i] : i \in {j \in 1..Len(pairs) :
                              (end(pairs[j][1]) - start(c.self)) + c.next_chunk_length
                                  <= c.max_length}}

\* C16: the rules are tried in list order; the split uses the first rule
\* that has a valid candidate and, of that rule's valid candidates, the
\* rightmost; when no rule has a valid candidate there is no split.
C16_CandidateSelection ==
    (ReturnedFrom("_split_chunk.splitters") /\ ~call.ret.raised) =>
        IF call.ret.found
        THEN \E k \in 1..Len(call.splitters) :
                 /\ \A j \in 1..(k - 1) : ValidCandidates(call, j) = {}
                 /\ call.ret.pair \in ValidCandidates(call, k)
                 /\ \A pair \in ValidCandidates(call, k) :
                        end(pair[1]) <= end(call.ret.pair[1])
        ELSE \A k \in 1..Len(call.splitters) : ValidCandidates(call, k) = {}

\* a rule with two valid candidates was used
C16_Witness ==
    /\ ReturnedFrom("_split_chunk.splitters")
    /\ ~call.ret.raised
    /\ call.ret.found
    /\ \E k \in 1..Len(call.splitters) :
           /\ \A j \in 1..(k - 1) : ValidCandidates(call, j) = {}
           /\ call.ret.pair \in ValidCandidates(call, k)
           /\ Cardinality(ValidCandidates(call, k)) >= 2

\* the matches of the call's rule that lie within the call's span
MatchesWithin(c) ==
    SelectSeq(finditer(c.splitter, c.src_text),
              LAMBDA m : start(c.self) <= m.span[1] /\ m.span[2] <= end(c.self))

\* C18: splititer yields one (left, right) pair for each match of the rule
\* that lies within the span and none for another match; left starts at the
\* span's start, right ends at the span's end, the cut lies in the match, and
\* both halves keep the paragraph index, paragraph length and line breaks.
C18_SplititerPairs ==
    ReturnedFrom("ParagraphSpan.splititer") =>
        /\ ~call.ret.raised
        /\ Len(call.ret.pairs) = Len(MatchesWithin(call))
        /\ \A i \in 1..Len(call.ret.pairs) :
               LET left == call.ret.pairs[i][1]
                   right == call.ret.pairs[i][2]
                   m == MatchesWithin(call)[i]
               IN  /\ start(left) = start(call.self)
                   /\ end(right) = end(call.self)
                   /\ m.span[1] <= end(left)
                   /\ end(left) <= start(right)
                   /\ start(right) <= m.span[2]
                   /\ \A half \in {left, right} :
                          /\ half.src_index = call.self.src_index
                          /\ half.src_length = call.self.src_length
                          /\ half.src_breaks = call.self.src_breaks

\* the cut the inclusion policy of the rule prescribes for a match
PolicyCut(splitter, m) ==
    LET captured == \E g \in 1..Len(m.groups) : m.groups[g][1] < m.groups[g][2]
    IN  [left_end |-> IF captured /\ "INCLUDE_LEFT" \in behavior(splitter)
                      THEN m.groups[1][2] ELSE m.span[1],
         right_start |-> IF captured /\ "INCLUDE_RIGHT" \in behavior(splitter)
                         THEN m.groups[Len(m.groups)][1] ELSE m.span[2]]

\* C19: the split boundaries follow the inclusion policy of the rule.
\* EXCLUDE cuts at the start and the end of the match; when a capture group
\* matched, INCLUDE_LEFT moves the end of left to the end of the first group
\* and INCLUDE_RIGHT moves the start of right to the start of the last group.
\* Stated for the calls in which every match leaves text on both sides.
C19_InclusionPolicy ==
    (/\ ReturnedFrom("ParagraphSpan.splititer")
     /\ \A i \in 1..Len(MatchesWithin(call)) :
            /\ start(call.self) < PolicyCut(call.splitter, MatchesWithin(call)[i]).left_end
            /\ PolicyCut(call.splitter, MatchesWithin(call)[i]).right_start < end(call.self))
        => /\ ~call.ret.raised
           /\ Len(call.ret.pairs) = Len(MatchesWithin(call))
           /\ \A i \in 1..Len(call.ret.pairs) :
                  /\ end(call.ret.pairs[i][1])
                         = PolicyCut(call.splitter, MatchesWithin(call)[i]).left_end
                  /\ start(call.ret.pairs[i][2])
                         = PolicyCut(call.splitter, MatchesWithin(call)[i]).right_start

\* C26: for every span and every match of the rule within the span, a match
\* at the span's start or at the span's end included, splititer yields a
\* pair of well-formed spans that are not empty, and does not raise.
C26_SplititerNeverRaises ==
    ReturnedFrom("ParagraphSpan.splititer") =>
        /\ ~call.ret.raised
        /\ Len(call.ret.pairs) = Len(MatchesWithin(call))
        /\ \A i \in 1..Len(call.ret.pairs) :
               \A half \in {call.ret.pairs[i][1], call.ret.pairs[i][2]} :
                   /\ 0 <= start(half)
                   /\ start(half) < end(half)
                   /\ end(half) <= half.src_length

\* C30: merge_pass and split_pass never lower the translation state of
\* content.  A span, or the part of a span, that was in a chunk in state s
\* before the pass is after the pass in a chunk whose state is at least s.
C30_StateNeverLowered ==
    (/\ call.fn \in {"BaseDocumentChunks.merge_pass", "BaseDocumentChunks.split_pass"}
     /\ call.returned
     /\ ~call.ret.raised)
        => \A i \in 1..Len(call.self), j \in 1..Len(call.ret.collection) :
               \A a \in SpansOf(call.self[i]), b \in SpansOf(call.ret.collection[j]) :
                   (a.src_index = b.src_index /\ _range_includes(a.char_range, b.char_range))
                       => call.ret.collection[j].state >= call.self[i].state

----------------------------------------------------------------------------
(* Properties of the running split pass (SpecSplit, SpecSplitLive) *)

====
